---- MODULE Spec2Model ----
(***************************************************************************)
(* A model of c_get_tile (src/core_terrain/read_tile.c): one call, from    *)
(* entry to return, one action per statement group of the function.        *)
(* Arrays are 0-based functions, as in the C code.                         *)
(***************************************************************************)
EXTENDS Integers, Sequences, FiniteSets, TLC

\* ---------------------------------------------------------------- bounds
MaxDim == 3
MaxOff == 1

Extent == MaxDim + MaxOff
\* Number of float cells modelled at the address the caller passes as tile:
\* the first dx*dy of them are the caller's tile, the rest is whatever the
\* caller has behind it.
MemSize == Extent * Extent

\* ---------------------------------------------------------------- inputs
WordSizes == {1, 2, 4}
Byte == 0..255
\* Byte patterns the files of the main specification are cut from
\* (the samples -1, 1, 32767, -32768 and, shifted by a byte, four more).
TestBytes == <<255, 255, 0, 1, 127, 255, 128, 0>>
Seeds == {0, 1}
\* Lengths of files shorter than the request (a short read).
ShortLens == {0, 1, 3}
\* Values uninitialised storage may hold: malloc'ed bytes, the float VLA.
HeapFills == {0, 165}
StackFills == {0, 12345}
\* What the caller's memory holds at entry.
EntryFill == -9999

PatternByte(s, k) == TestBytes[((k + s) % Len(TestBytes)) + 1]
FileOf(s, n) == [k \in 1..n |-> PatternByte(s, k - 1)]

VARIABLES
    pc,         \* position in c_get_tile
    file,       \* the bytes of the file at path `file`
    dx, dy, x_offset, y_offset, word_size,
    tile,       \* the caller's memory at `tile`, MemSize floats
    fd, buf, numBytes, value, tile_1d, i, j,
    ret,        \* the value returned (0 until the call returns)
    heapFill, stackFill,
    \* history of the call
    bufState,   \* "unallocated", "allocated", "freed"
    frees, opens, readCalls,
    closeRet,   \* what each call of close returned, in order
    decodeIters, assigned, writes, srcReads

vars == <<pc, file, dx, dy, x_offset, y_offset, word_size, tile, fd, buf,
          numBytes, value, tile_1d, i, j, ret, heapFill, stackFill, bufState,
          frees, opens, readCalls, closeRet, decodeIters, assigned, writes,
          srcReads>>

closeCalls == Len(closeRet)

params == <<file, dx, dy, x_offset, y_offset, word_size, heapFill, stackFill>>

\* ------------------------------------------------------- pure operators
RECURSIVE Pow2(_)
Pow2(n) == IF n = 0 THEN 1 ELSE 2 * Pow2(n - 1)

ShiftLeft(a, n) == a * Pow2(n)
ShiftRight(a, n) == a \div Pow2(n)

RECURSIVE BitOr(_, _)
BitOr(a, b) ==
    IF a = 0 THEN b
    ELSE IF b = 0 THEN a
    ELSE (IF a % 2 = 1 \/ b % 2 = 1 THEN 1 ELSE 0)
         + 2 * BitOr(a \div 2, b \div 2)

Abs(v) == IF v < 0 THEN 0 - v ELSE v

\* (float) of an int: a 24-bit significand, round to nearest, ties to even.
RECURSIVE FloatUlp(_, _)
FloatUlp(a, u) == IF a \div u < 16777216 THEN u ELSE FloatUlp(a, 2 * u)

RoundTo(a, u) ==
    LET q == a \div u
        r == a % u
    IN  IF 2 * r > u \/ (2 * r = u /\ q % 2 = 1) THEN (q + 1) * u ELSE q * u

ToFloat(v) ==
    LET a == Abs(v)
        m == RoundTo(a, FloatUlp(a, 1))
    IN  IF v < 0 THEN 0 - m ELSE m

\* int narray = (dx + x_offset) * (dy + y_offset);
narray == (dx + x_offset) * (dy + y_offset)

\* the byte count passed to malloc and to read
nbytes == word_size * narray

\* the sign test shifting by a whole byte
SignBitSetByte(b) == ShiftRight(b, 8) = 1

\* buf[word_size * i] >> 7 == 1
SignBitSet(b) == ShiftRight(b, 7) = 1

\* the body of case 2: the value of sample k of the buffer b
Decode2(b, k) ==
    LET v == BitOr(ShiftLeft(b[word_size * k], 8), b[word_size * k + 1])
    IN  IF SignBitSet(b[word_size * k])
        THEN v - ShiftLeft(1, 8 * word_size)
        ELSE v

\* a read check that also rejects a short read
ReadFailedShort(n) == n # nbytes

\* an open check that never fires
OpenFailedNever(f) == FALSE

\* numBytes == -1  (numBytes is a size_t and -1 converts to SIZE_MAX, which
\* is what read's -1 became: the comparison is true exactly for read's -1)
ReadFailed(n) == n = -1

OpenFailed(f) == f = -1

CloseFailed(r) == r = -1

\* the column loop stopping at the unpadded width
RemapColsUnpadded == dx

\* the destination index with the other dimension as stride
DstIndexDy(ii, jj) == ii * dy + jj

\* loop bounds of the remap
RemapCols == dx + x_offset
RemapRows == dy + y_offset

\* tile[i * dx + j] = tile_1d[(dx + x_offset) * j + i]
DstIndex(ii, jj) == ii * dx + jj
SrcIndex(ii, jj) == (dx + x_offset) * jj + ii

\* tile_1d[k]; beyond the array the load yields what the stack holds there
Load1d(k) == IF k \in DOMAIN tile_1d THEN tile_1d[k] ELSE stackFill

EntryTile == [k \in 0..(MemSize - 1) |-> EntryFill]

\* ------------------------------------------------------------------ Init
InitCall ==
    /\ pc = "entry"
    /\ tile = EntryTile
    /\ fd = 0 /\ buf = <<>> /\ numBytes = 0 /\ value = 0
    /\ tile_1d = <<>> /\ i = 0 /\ j = 0
    /\ ret = 0
    /\ bufState = "unallocated"
    /\ frees = 0 /\ opens = 0 /\ readCalls = 0
    /\ closeRet = <<>>
    /\ decodeIters = 0
    /\ assigned = {}
    /\ writes = [k \in 0..(MemSize - 1) |-> 0]
    /\ srcReads = [k \in 0..(MemSize - 1) |-> 0]

Init ==
    /\ dx \in 1..MaxDim /\ dy \in 1..MaxDim
    /\ x_offset \in 0..MaxOff /\ y_offset \in 0..MaxOff
    /\ word_size \in WordSizes
    /\ heapFill \in HeapFills /\ stackFill \in StackFills
    /\ file \in {FileOf(s, n) : s \in Seeds, n \in ShortLens \cup {nbytes}}
    /\ InitCall

\* One 16-bit sample, every byte pair.
InitDecode ==
    /\ dx = 1 /\ dy = 1 /\ x_offset = 0 /\ y_offset = 0
    /\ word_size = 2
    /\ heapFill = 0 /\ stackFill = 0
    /\ file \in {<<b0, b1>> : b0 \in Byte, b1 \in Byte}
    /\ InitCall

\* --------------------------------------------------------------- actions
\* lines 56-60: the VLA and the malloc
Malloc ==
    /\ pc = "entry"
    /\ tile_1d' = [k \in 0..(narray - 1) |-> stackFill]
    /\ buf' = [k \in 0..(nbytes - 1) |-> heapFill]
    /\ bufState' = "allocated"
    /\ pc' = "open"
    /\ UNCHANGED <<params, tile, fd, numBytes, value, i, j, ret, frees, opens,
                   readCalls, closeRet, decodeIters, assigned,
                   writes, srcReads>>

\* lines 62-67
Open ==
    /\ pc = "open"
    /\ \E f \in {-1, 3} :
        /\ fd' = f
        /\ opens' = IF f = -1 THEN opens ELSE opens + 1
        /\ IF OpenFailed(f)
           THEN ret' = -1 /\ pc' = "done"
           ELSE ret' = ret /\ pc' = "read"
    /\ UNCHANGED <<params, tile, buf, numBytes, value, tile_1d, i, j,
                   bufState, frees, readCalls, closeRet,
                   decodeIters, assigned, writes, srcReads>>

\* what read(fd, buf, nbytes) can return on the file
ReadResults ==
    {-1, IF Len(file) < nbytes THEN Len(file) ELSE nbytes}

\* lines 69-73
Read ==
    /\ pc = "read"
    /\ \E n \in ReadResults :
        /\ numBytes' = n
        /\ buf' = [k \in DOMAIN buf |-> IF k < n THEN file[k + 1] ELSE buf[k]]
        /\ IF ReadFailed(n)
           THEN ret' = -1 /\ pc' = "done"
           ELSE ret' = ret /\ pc' = "close"
    /\ readCalls' = readCalls + 1
    /\ UNCHANGED <<params, tile, fd, value, tile_1d, i, j, bufState, frees,
                   opens, closeRet, decodeIters, assigned, writes,
                   srcReads>>

\* lines 74-77
Close ==
    /\ pc = "close"
    /\ \E r \in {0, -1} :
        /\ closeRet' = Append(closeRet, r)
        /\ IF CloseFailed(r)
           THEN ret' = -1 /\ pc' = "done" /\ i' = i
           ELSE ret' = ret /\ pc' = "decode" /\ i' = 0
    /\ UNCHANGED <<params, tile, fd, buf, numBytes, value, tile_1d, j,
                   bufState, frees, opens, readCalls, decodeIters, assigned,
                   writes, srcReads>>

\* lines 80-98: one iteration of the decode loop, or its exit
Decode ==
    /\ pc = "decode"
    /\ IF i < narray
       THEN /\ IF word_size = 2
               THEN /\ value' = Decode2(buf, i)
                    /\ tile_1d' = [tile_1d EXCEPT ![i] = ToFloat(value')]
                    /\ assigned' = assigned \cup {i}
               ELSE UNCHANGED <<value, tile_1d, assigned>>
            /\ decodeIters' = decodeIters + 1
            /\ i' = i + 1
            /\ UNCHANGED <<pc, j>>
       ELSE /\ pc' = "remap"
            /\ j' = 0
            /\ i' = 0
            /\ UNCHANGED <<value, tile_1d, assigned, decodeIters>>
    /\ UNCHANGED <<params, tile, fd, buf, numBytes, ret, bufState, frees,
                   opens, readCalls, closeRet, writes, srcReads>>

\* lines 100-105: one step of the remap loops
Remap ==
    /\ pc = "remap"
    /\ IF j < RemapCols
       THEN IF i < RemapRows
            THEN /\ tile' = [tile EXCEPT ![DstIndex(i, j)] = Load1d(SrcIndex(i, j))]
                 /\ writes' = [writes EXCEPT ![DstIndex(i, j)] = @ + 1]
                 /\ srcReads' = [srcReads EXCEPT ![SrcIndex(i, j)] = @ + 1]
                 /\ i' = i + 1
                 /\ UNCHANGED <<pc, j>>
            ELSE /\ j' = j + 1
                 /\ i' = 0
                 /\ UNCHANGED <<pc, tile, writes, srcReads>>
       ELSE /\ pc' = "free"
            /\ UNCHANGED <<i, j, tile, writes, srcReads>>
    /\ UNCHANGED <<params, fd, buf, numBytes, value, tile_1d, ret, bufState,
                   frees, opens, readCalls, closeRet, decodeIters, assigned>>

\* line 107
Free ==
    /\ pc = "free"
    /\ bufState' = "freed"
    /\ frees' = frees + 1
    /\ pc' = "return"
    /\ UNCHANGED <<params, tile, fd, buf, numBytes, value, tile_1d, i, j, ret,
                   opens, readCalls, closeRet, decodeIters,
                   assigned, writes, srcReads>>

\* line 109
Return ==
    /\ pc = "return"
    /\ ret' = 1
    /\ pc' = "done"
    /\ UNCHANGED <<params, tile, fd, buf, numBytes, value, tile_1d, i, j,
                   bufState, frees, opens, readCalls, closeRet,
                   decodeIters, assigned, writes, srcReads>>

Next ==
    \/ Malloc
    \/ Open
    \/ Read
    \/ Close
    \/ Decode
    \/ Remap
    \/ Free
    \/ Return

Spec == Init /\ [][Next]_vars

SpecDecode == InitDecode /\ [][Next]_vars

TypeOK ==
    /\ pc \in {"entry", "open", "read", "close", "decode", "remap", "free",
               "return", "done"}
    /\ ret \in {0, 1, -1}
    /\ DOMAIN tile = 0..(MemSize - 1)

\* ---------------------------------------------------------------- claims
returned == pc = "done"

TwosComplement16(b0, b1) ==
    IF b0 < 128 THEN b0 * 256 + b1 ELSE b0 * 256 + b1 - 65536

Written == {k \in DOMAIN writes : writes[k] > 0}

\* C1: the call returns 1 exactly when open succeeded, read did not return
\* -1 and close succeeded, and -1 otherwise; a short read still returns 1;
\* nothing else is returned.
C1_Status ==
    returned =>
        /\ ret \in {1, -1}
        /\ ret = 1 => /\ fd # -1
                      /\ readCalls = 1 /\ numBytes # -1
                      /\ closeRet = <<0>>
        /\ ret = -1 => \/ fd = -1
                       \/ readCalls = 1 /\ numBytes = -1
                       \/ closeRet = <<-1>>

C1_Witness ==
    returned /\ ret = 1 /\ numBytes >= 0 /\ numBytes < nbytes

\* C2: with word_size 2 every decoded sample is the big-endian two's
\* complement value of its byte pair, within -32768..32767; FF FF is -1,
\* 00 01 is 1, 7F FF is 32767, 80 00 is -32768.
C2_Decode16 ==
    word_size = 2 =>
        \A k \in assigned :
            LET b0 == buf[2 * k]
                b1 == buf[2 * k + 1]
            IN  /\ tile_1d[k] = TwosComplement16(b0, b1)
                /\ tile_1d[k] \in (0 - 32768)..32767
                /\ (b0 = 255 /\ b1 = 255) => tile_1d[k] = -1
                /\ (b0 = 0 /\ b1 = 1) => tile_1d[k] = 1
                /\ (b0 = 127 /\ b1 = 255) => tile_1d[k] = 32767
                /\ (b0 = 128 /\ b1 = 0) => tile_1d[k] = 0 - 32768

C2_Witness ==
    /\ returned /\ ret = 1 /\ word_size = 2 /\ numBytes = 2
    /\ buf[0] = 128 /\ buf[1] = 0 /\ 0 \in assigned /\ tile[0] = 0 - 32768

\* C3: on every exit path the raw byte buffer has been released exactly
\* once when the call returns.
C3_ReleasedOnce ==
    returned => (frees = 1 /\ bufState = "freed")

\* C4: the call exits at the first I/O failure: no read or close after a
\* failed open, no decode or remap after a failed read or a failed close,
\* and on failure the output tile is as it was at entry.
C4_EarlyExit ==
    /\ fd = -1 => (readCalls = 0 /\ closeCalls = 0)
    /\ numBytes = -1 => (decodeIters = 0 /\ Written = {})
    /\ (closeRet # <<>> /\ closeRet[1] = -1) =>
            (decodeIters = 0 /\ Written = {})
    /\ ret = -1 =>
        /\ fd = -1 \/ numBytes = -1 \/ closeRet = <<-1>>
        /\ decodeIters = 0 /\ assigned = {} /\ Written = {}
        /\ tile = EntryTile

C4_Witness ==
    returned /\ ret = -1 /\ closeRet = <<-1>> /\ numBytes = nbytes

\* C5: with both offsets 0 a successful call writes every output position
\* below dx*dy exactly once and no position at or above dx*dy.
C5_FullTile ==
    (x_offset = 0 /\ y_offset = 0) =>
        /\ \A k \in DOMAIN writes :
                writes[k] <= (IF k < dx * dy THEN 1 ELSE 0)
        /\ (returned /\ ret = 1) =>
                \A k \in 0..(dx * dy - 1) : writes[k] = 1

C5_Witness ==
    /\ returned /\ ret = 1 /\ x_offset = 0 /\ y_offset = 0
    /\ dx = 3 /\ dy = 2 /\ writes[5] = 1

\* C6: a call with word_size other than 2 does not return 1 with samples
\* that no decode step assigned.
C6_NoSilentSuccess ==
    (returned /\ ret = 1 /\ word_size # 2) =>
        \A k \in 0..(narray - 1) : k \in assigned

\* C7: with both offsets 0 the remap is a transpose for every dx, dy: the
\* output position i*dx + j holds the decoded sample dx*j + i, and each of
\* the dx*dy samples is copied exactly once.
C7_Transpose ==
    (returned /\ ret = 1 /\ x_offset = 0 /\ y_offset = 0) =>
        /\ \A ii \in 0..(dy - 1), jj \in 0..(dx - 1) :
                /\ dx * jj + ii < narray
                /\ tile[ii * dx + jj] = tile_1d[dx * jj + ii]
        /\ \A k \in 0..(dx * dy - 1) : srcReads[k] = 1

\* C8: with a non-zero offset a successful call writes an output index at
\* or above dx*dy, and the largest index written is
\* (dy + y_offset)*dx + x_offset - 1.
C8_WritesPastTile ==
    (returned /\ ret = 1 /\ (x_offset # 0 \/ y_offset # 0)) =>
        /\ \E k \in Written : k >= dx * dy
        /\ \A k \in Written : k <= (dy + y_offset) * dx + x_offset - 1
        /\ (dy + y_offset) * dx + x_offset - 1 \in Written

C8_Witness ==
    /\ returned /\ ret = 1 /\ x_offset = 1 /\ y_offset = 0
    /\ writes[dx * dy] > 0

\* C9: every index the remap reads the 1-D sample sequence at lies in
\* 0..narray-1.
C9_SrcInBounds ==
    \A k \in DOMAIN srcReads : srcReads[k] > 0 => k < narray

\* C10: when open succeeded, close has been called exactly once on the
\* descriptor by the time the call returns.
C10_ClosedOnce ==
    (returned /\ opens = 1) => closeCalls = 1

====
